---- MODULE Spec2Model ----
(***************************************************************************)
(* Model of src/index.js (morpho-sense-rewards): the time-weighted score   *)
(* accumulator over the sorted YT transfer log, the final accrual up to    *)
(* min(currentBlock, endBlock), and the computation of each holder's       *)
(* rights from the scores.                                                 *)
(*                                                                         *)
(* Scores and amounts are decimal.js values (precision 20).  Every sum and *)
(* product of the accumulator is an integer far below 10^20 within the     *)
(* bounds of this model, so plus/minus/times are exact there and are       *)
(* modelled by integer arithmetic.                                         *)
(***************************************************************************)
EXTENDS Integers, Sequences, FiniteSets

\* ------------------------------------------------------------------ bounds

\* Largest block number of an event and of the chain head.
MaxBlock == 2

\* Largest number of transfer events in the aggregated log.
MaxEvents == 2

\* ------------------------------------------------------- program constants

\* ethers.constants.AddressZero: the mint source and the burn destination.
AddressZero == "0x0"

\* The default of the endBlock parameter (JavaScript's Infinity): larger than
\* every block number.
Infinity == 1000000

\* The holders of the model.
Holders == {"A", "B"}

Address == Holders \cup {AddressZero}

\* The amounts a transfer of the model carries.
Amounts == {1, 2}

Blocks == 0..MaxBlock

VARIABLES
  startBlock,            \* parameter startBlock of main
  endBlock,              \* parameter endBlock of main, overwritten at line 104
  simulatedRun,          \* parameter simulatedRun of main
  log,                   \* the events of aggregatedTransfers consumed so far
  scores,                \* the object scores: holder -> {score, prevCheckpoint}
  totalScore,            \* line 110
  totalAvailableMorpho,  \* lines 112-114
  rights,                \* the object rights: holder -> amount string
  pc,                    \* position in main: "fetch", "loop", "allocate",
                         \* "merkle", "output", "done"
  error,                 \* the exception main has thrown, "none" while it has not
  currentBlock,          \* line 103, 0 until it is read
  tree,                  \* {root, proofs} of line 123
  console,               \* what console.log has printed, in order
  file,                  \* what has been written to PROOFS_FILENAME, "none" if nothing
  transfers,             \* the array t of line 50: one list of logs per YT
  aggregatedTransfers    \* line 48: the flattened and sorted list, as far as
                         \* it is known

vars == <<startBlock, endBlock, simulatedRun, log, scores, totalScore,
          totalAvailableMorpho, rights, pc, error, currentBlock, tree, console,
          file, transfers, aggregatedTransfers>>

\* What lines 48-55 compute.
feed == <<transfers, aggregatedTransfers>>

\* ------------------------------------------------------------- accumulator

\* The object literal of line 61.
EmptyScores == [h \in {} |-> 0]

\* root and proofs before line 123 has run.
NoTree == [root |-> <<>>, proofs |-> EmptyScores]

\* Accrue without the window: every interval counts from the previous
\* checkpoint, whatever startBlock is.
AccrueNoWindow(e, block, start) ==
  e.score + e.prevCheckpoint.amount * (block - e.prevCheckpoint.block)

\* Accrue with the interval that straddles startBlock counted whole, from
\* the previous checkpoint and not from startBlock.
AccrueWholeInterval(e, block, start) ==
  IF start > e.prevCheckpoint.block
  THEN IF start < block
       THEN e.score + e.prevCheckpoint.amount * (block - e.prevCheckpoint.block)
       ELSE e.score
  ELSE e.score + e.prevCheckpoint.amount * (block - e.prevCheckpoint.block)

\* The score after accruing the interval that ends at `block` for an entry
\* `e` of scores (lines 67-78, and again 91-97).
Accrue(e, block, start) ==
  IF start > e.prevCheckpoint.block
  THEN IF start < block
       THEN e.score + e.prevCheckpoint.amount * (block - start)
       ELSE e.score
  ELSE e.score + e.prevCheckpoint.amount * (block - e.prevCheckpoint.block)

\* The `to` side without the test of line 63: the sentinel is credited like
\* any other address.
CreditToAny(sc, to, amount, block, start) ==
  IF to \in DOMAIN sc
  THEN [sc EXCEPT ![to] =
          [score |-> Accrue(sc[to], block, start),
           prevCheckpoint |->
             [amount |-> sc[to].prevCheckpoint.amount + amount, block |-> block]]]
  ELSE [h \in DOMAIN sc \cup {to} |->
          IF h = to
          THEN [score |-> 0, prevCheckpoint |-> [amount |-> amount, block |-> block]]
          ELSE sc[h]]

\* The `to` side of one event (lines 63-86).
CreditTo(sc, to, amount, block, start) ==
  IF to = AddressZero THEN sc
  ELSE IF to \in DOMAIN sc
  THEN [sc EXCEPT ![to] =
          [score |-> Accrue(sc[to], block, start),
           prevCheckpoint |->
             [amount |-> sc[to].prevCheckpoint.amount + amount, block |-> block]]]
  ELSE [h \in DOMAIN sc \cup {to} |->
          IF h = to
          THEN [score |-> 0, prevCheckpoint |-> [amount |-> amount, block |-> block]]
          ELSE sc[h]]

\* The `from` side without the accrual of lines 91-97: the checkpoint moves
\* and the score stays.
DebitFromNoAccrual(sc, from, amount, block, start) ==
  IF from \in DOMAIN sc /\ from # AddressZero
  THEN [sc EXCEPT ![from] =
          [score |-> sc[from].score,
           prevCheckpoint |->
             [amount |-> sc[from].prevCheckpoint.amount - amount, block |-> block]]]
  ELSE sc

\* The `from` side with the entry of a holder deleted when its balance
\* returns to zero.
DebitFromPruning(sc, from, amount, block, start) ==
  IF from \in DOMAIN sc /\ from # AddressZero
  THEN IF sc[from].prevCheckpoint.amount = amount
       THEN [h \in DOMAIN sc \ {from} |-> sc[h]]
       ELSE [sc EXCEPT ![from] =
               [score |-> Accrue(sc[from], block, start),
                prevCheckpoint |->
                  [amount |-> sc[from].prevCheckpoint.amount - amount,
                   block |-> block]]]
  ELSE sc

\* The `from` side of one event (lines 88-99).
DebitFrom(sc, from, amount, block, start) ==
  IF from \in DOMAIN sc /\ from # AddressZero
  THEN [sc EXCEPT ![from] =
          [score |-> Accrue(sc[from], block, start),
           prevCheckpoint |->
             [amount |-> sc[from].prevCheckpoint.amount - amount, block |-> block]]]
  ELSE sc

\* One iteration of the loop with a `from` side that accrues on the
\* checkpoint as it was before the `to` side ran.
ProcessTransferStale(sc, ev, start) ==
  LET credited == CreditTo(sc, ev.to, ev.amount, ev.block, start)
  IN IF ev.from \in DOMAIN sc /\ ev.from # AddressZero
     THEN [credited EXCEPT ![ev.from] =
             [score |-> credited[ev.from].score
                          + (Accrue(sc[ev.from], ev.block, start) - sc[ev.from].score),
              prevCheckpoint |->
                [amount |-> credited[ev.from].prevCheckpoint.amount - ev.amount,
                 block |-> ev.block]]]
     ELSE DebitFrom(credited, ev.from, ev.amount, ev.block, start)

\* One iteration of the loop of lines 62-100: the `to` side, then the `from`
\* side on the object the `to` side has updated.
ProcessTransfer(sc, ev, start) ==
  DebitFrom(CreditTo(sc, ev.to, ev.amount, ev.block, start),
            ev.from, ev.amount, ev.block, start)

\* A Transfer log as queryFilter returns it (line 51) for an event of the
\* loop: the arguments of the event and the number of its block.
RawLog(ev) ==
  [args |-> [from |-> ev.from, to |-> ev.to, amount |-> ev.amount],
   blockNumber |-> ev.block]

\* Line 54: {...t.args, amount: new Decimal(t.args.amount.toString()),
\* block: t.blockNumber}.
ToTransfer(t) ==
  [from |-> t.args.from, to |-> t.args.to, amount |-> t.args.amount,
   block |-> t.blockNumber]

\* Line 52: t.flat().
RECURSIVE Flat(_)
Flat(t) == IF t = <<>> THEN <<>> ELSE Head(t) \o Flat(Tail(t))

\* Insertion of a log in front of the logs of its own block.
InsertBeforeTies(sorted, t) ==
  LET k == Cardinality({i \in 1..Len(sorted) : sorted[i].blockNumber < t.blockNumber})
  IN SubSeq(sorted, 1, k) \o <<t>> \o SubSeq(sorted, k + 1, Len(sorted))

\* Insertion of a log into a list sorted by blockNumber, behind every log
\* whose blockNumber is not greater.
InsertByBlock(sorted, t) ==
  LET k == Cardinality({i \in 1..Len(sorted) : sorted[i].blockNumber <= t.blockNumber})
  IN SubSeq(sorted, 1, k) \o <<t>> \o SubSeq(sorted, k + 1, Len(sorted))

\* Line 53: sort((a, b) => a.blockNumber - b.blockNumber). Array.prototype
\* .sort is stable, so the result is the one of inserting the logs one after
\* the other.
RECURSIVE SortByBlockNumber(_)
SortByBlockNumber(l) ==
  IF l = <<>> THEN <<>>
  ELSE InsertByBlock(SortByBlockNumber(SubSeq(l, 1, Len(l) - 1)), l[Len(l)])

\* Lines 52-54 on the lists Promise.all has returned.
Aggregated(t) ==
  LET sorted == SortByBlockNumber(Flat(t))
  IN [i \in 1..Len(sorted) |-> ToTransfer(sorted[i])]

\* The block of the last event consumed: the log is sorted ascending by block
\* (line 53), so the next event's block is at least this.
LastBlock(l) == IF l = <<>> THEN 0 ELSE l[Len(l)].block

\* Line 104: endBlock = currentBlock < endBlock ? currentBlock : endBlock.
EffectiveEnd(current, end) == IF current < end THEN current ELSE end

\* The loop of lines 105-108 over the entries of scores that hold a balance
\* only.
FinalAccrueHolding(sc, end) ==
  [h \in DOMAIN sc |->
     IF sc[h].prevCheckpoint.amount = 0 THEN sc[h]
     ELSE [score |-> sc[h].score
                       + sc[h].prevCheckpoint.amount * (end - sc[h].prevCheckpoint.block),
           prevCheckpoint |-> [amount |-> sc[h].prevCheckpoint.amount, block |-> end]]]

\* The loop of lines 105-108 over every entry of scores.
FinalAccrue(sc, end) ==
  [h \in DOMAIN sc |->
     [score |-> sc[h].score
                  + sc[h].prevCheckpoint.amount * (end - sc[h].prevCheckpoint.block),
      prevCheckpoint |-> [amount |-> sc[h].prevCheckpoint.amount, block |-> end]]]

\* The sum of f[x] over the finite set S.
RECURSIVE SumOver(_, _)
SumOver(f, S) ==
  IF S = {} THEN 0
  ELSE LET x == CHOOSE y \in S : TRUE IN f[x] + SumOver(f, S \ {x})

\* Line 110: the sum of every holder's score.
TotalScore(sc) == SumOver([h \in DOMAIN sc |-> sc[h].score], DOMAIN sc)

\* The scores after the loop of lines 62-100 has consumed the whole log l.
RECURSIVE RunLog(_, _)
RunLog(l, start) ==
  IF l = <<>> THEN EmptyScores
  ELSE ProcessTransfer(RunLog(SubSeq(l, 1, Len(l) - 1), start), l[Len(l)], start)

\* -------------------------------------------------------------- decimal.js

\* decimal.js defaults: 20 significant digits, ROUND_HALF_UP, and exponential
\* notation in toString from the exponent 21 on.
Precision == 20

ToExpPos == 21

\* The decimal digits of the natural number n, most significant first (the
\* empty sequence for 0).
RECURSIVE Digits(_)
Digits(n) == IF n = 0 THEN <<>> ELSE Append(Digits(n \div 10), n % 10)

Zeros(k) == [i \in 1..k |-> 0]

\* The number of leading zeros of a digit sequence.
RECURSIVE LeadingZeros(_)
LeadingZeros(ds) ==
  IF ds = <<>> \/ ds[1] # 0 THEN 0 ELSE 1 + LeadingZeros(Tail(ds))

\* ds + 1, digit by digit.
RECURSIVE IncDigits(_)
IncDigits(ds) ==
  IF ds = <<>> THEN <<1>>
  ELSE IF ds[Len(ds)] < 9 THEN [ds EXCEPT ![Len(ds)] = @ + 1]
  ELSE Append(IncDigits(SubSeq(ds, 1, Len(ds) - 1)), 0)

\* ds * m + carry for a small natural m, digit by digit; leading zeros of ds
\* are kept.
RECURSIVE MulDigits(_, _, _)
MulDigits(ds, m, carry) ==
  IF ds = <<>> THEN Digits(carry)
  ELSE LET v == ds[Len(ds)] * m + carry
       IN Append(MulDigits(SubSeq(ds, 1, Len(ds) - 1), m, v \div 10), v % 10)

\* The first k digits of the fraction r / d, for 0 <= r < d.
RECURSIVE FracDigits(_, _, _)
FracDigits(r, d, k) ==
  IF k = 0 THEN <<>>
  ELSE <<(10 * r) \div d>> \o FracDigits((10 * r) % d, d, k - 1)

\* A Decimal: NaN, an infinity, or the number ds * 10^(-scale) with its sign,
\* ds holding the integer digits (no leading zero) and then `scale`
\* fraction digits.
DecNaN == [kind |-> "NaN", neg |-> FALSE, ds |-> <<>>, scale |-> 0]

DecInfinity(neg) == [kind |-> "Infinity", neg |-> neg, ds |-> <<>>, scale |-> 0]

DecNum(neg, ds, scale) == [kind |-> "num", neg |-> neg, ds |-> ds, scale |-> scale]

\* The integer digits of a number lose their leading zeros.
Normalise(x) ==
  LET intLen == Len(x.ds) - x.scale
      lz == LeadingZeros(SubSeq(x.ds, 1, intLen))
  IN DecNum(x.neg, SubSeq(x.ds, lz + 1, Len(x.ds)), x.scale)

\* decimal.js finalise: x rounded to sd significant digits, half up.
Finalise(x, sd) ==
  LET lead == LeadingZeros(x.ds)
      keep == lead + sd
      intLen == Len(x.ds) - x.scale
  IN IF lead = Len(x.ds) \/ Len(x.ds) <= keep THEN x
     ELSE LET kept == SubSeq(x.ds, 1, keep)
              r == IF x.ds[keep + 1] >= 5 THEN IncDigits(kept) ELSE kept
          IN IF keep >= intLen
             THEN DecNum(x.neg, r, keep - intLen)
             ELSE DecNum(x.neg, r \o Zeros(intLen - keep), 0)

Abs(n) == IF n < 0 THEN -n ELSE n

\* Decimal.div of two integer-valued Decimals (line 118): the quotient to
\* Precision significant digits, half up; x/0 is an infinity, 0/0 is NaN.
DecDiv(n, d) ==
  IF d = 0
  THEN IF n = 0 THEN DecNaN ELSE DecInfinity(n < 0)
  ELSE LET a == Abs(n)
           b == Abs(d)
           ip == Digits(a \div b)
           r == a % b
           lz == LeadingZeros(FracDigits(r, b, Precision))
           k == IF r = 0 THEN 0
                ELSE (IF ip = <<>> THEN lz ELSE 0) + Precision + 1
       IN Finalise(DecNum((n < 0) # (d < 0), ip \o FracDigits(r, b, k), k),
                   Precision)

\* A pool size: the integer m * 10^e.
Pool(m, e) == [m |-> m, e |-> e]

\* Decimal.times by the pool (line 120): the product to Precision
\* significant digits, half up.
DecTimes(x, pool) ==
  IF x.kind = "NaN" THEN DecNaN
  ELSE IF x.kind = "Infinity"
  THEN IF pool.m = 0 THEN DecNaN ELSE x
  ELSE IF pool.m = 0 THEN DecNum(x.neg, <<>>, 0)
  ELSE Finalise(
         Normalise(DecNum(x.neg, MulDigits(x.ds, pool.m, 0) \o Zeros(pool.e),
                          x.scale)),
         Precision)

\* toDecimalPlaces(0) (line 120): x rounded to an integer with the rounding
\* mode of the Decimal constructor, half up.
ToDecimalPlaces0(x) ==
  IF x.kind # "num" \/ x.scale = 0 THEN x
  ELSE LET intLen == Len(x.ds) - x.scale
           ip == SubSeq(x.ds, 1, intLen)
       IN DecNum(x.neg, IF x.ds[intLen + 1] >= 5 THEN IncDigits(ip) ELSE ip, 0)

\* A digit sequence without its trailing zeros.
RECURSIVE StripTrailing(_)
StripTrailing(ds) ==
  IF ds = <<>> \/ ds[Len(ds)] # 0 THEN ds
  ELSE StripTrailing(SubSeq(ds, 1, Len(ds) - 1))

\* toString of an integer-valued Decimal (line 120): its digits, or from the
\* exponent ToExpPos on the exponential notation d.ddde+N (coefficient digits
\* and exponent are kept).
ToString(x) ==
  IF x.kind # "num"
  THEN [form |-> x.kind, neg |-> x.neg, digits |-> <<>>, exp |-> 0]
  ELSE IF Len(x.ds) - 1 >= ToExpPos
  THEN [form |-> "exponential", neg |-> x.neg, digits |-> StripTrailing(x.ds),
        exp |-> Len(x.ds) - 1]
  ELSE [form |-> "plain", neg |-> x.neg, digits |-> x.ds, exp |-> 0]

\* MIN_POT_PERCENTAGE (line 22) as toNumber() meets it: a Decimal fraction
\* below 0.01 has a nearest double above the double 0.001 if and only if its
\* first 22 fraction digits exceed these (0.0010000000000000001292: the
\* double 0.001 is 0.00100000000000000002081..., the next one
\* 0.00100000000000000023765..., their midpoint 0.00100000000000000012923...).
MIN_POT_PERCENTAGE ==
  <<0, 0, 1, 0, 0, 0, 0, 0, 0, 0, 0, 0, 0, 0, 0, 0, 0, 0, 1, 2, 9, 2>>

\* x > y for two digit sequences of the same length.
RECURSIVE DigitsGreater(_, _)
DigitsGreater(x, y) ==
  /\ x # <<>>
  /\ \/ x[1] > y[1]
     \/ x[1] = y[1] /\ DigitsGreater(Tail(x), Tail(y))

\* The minimum-share test with >= in place of >: a share of exactly 0.001
\* passes.
GeMinPot(x) ==
  \/ x.kind = "Infinity" /\ ~x.neg
  \/ /\ x.kind = "num"
     /\ ~x.neg
     /\ \/ Len(x.ds) > x.scale
        \/ LET f == SubSeq(x.ds \o Zeros(22), 1, 22)
           IN f = <<0, 0, 1>> \o Zeros(19) \/ DigitsGreater(f, MIN_POT_PERCENTAGE)

\* _score.toNumber() > MIN_POT_PERCENTAGE (line 119).
GtMinPot(x) ==
  \/ x.kind = "Infinity" /\ ~x.neg
  \/ /\ x.kind = "num"
     /\ ~x.neg
     /\ \/ Len(x.ds) > x.scale
        \/ DigitsGreater(SubSeq(x.ds \o Zeros(22), 1, 22), MIN_POT_PERCENTAGE)

\* ------------------------------------------------------------------ actions

\* The state main starts its loop in, for a window drawn from `starts` and
\* `ends`; line 138 calls main with simulatedRun = true.
InitOf(starts, ends) ==
  /\ startBlock \in starts
  /\ endBlock \in ends
  /\ simulatedRun = TRUE
  /\ log = <<>>
  /\ scores = EmptyScores
  /\ totalScore = 0
  /\ totalAvailableMorpho = Pool(0, 0)
  /\ rights = EmptyScores
  /\ pc = "loop"
  /\ error = "none"
  /\ currentBlock = 0
  /\ tree = NoTree
  /\ console = <<>>
  /\ file = "none"
  /\ transfers = <<>>
  /\ aggregatedTransfers = log

\* One iteration of the for loop of lines 62-100 on the next event of the
\* sorted log, the event drawn from the given sets: aggregatedTransfers is
\* drawn event by event as the loop reads it, and the lists it was sorted
\* from are left out (transfers stays empty).
ProcessEventOf(addrs, amts, blks) ==
  /\ pc = "loop"
  /\ log = aggregatedTransfers
  /\ Len(log) < MaxEvents
  /\ \E from \in addrs, to \in addrs, amount \in amts,
        block \in {b \in blks : b >= LastBlock(log)} :
       LET ev == [from |-> from, to |-> to, amount |-> amount, block |-> block]
       IN /\ scores' = ProcessTransfer(scores, ev, startBlock)
          /\ log' = Append(log, ev)
          /\ aggregatedTransfers' = Append(log, ev)
  /\ UNCHANGED <<startBlock, endBlock, simulatedRun, totalScore,
                 totalAvailableMorpho, rights, pc, error, currentBlock, tree,
                 console, file, transfers>>

\* Lines 102-108, once the log is exhausted: the chain head is read (it is at
\* least the block of every event fetched before), endBlock is clamped to it
\* and every holder accrues up to it.
FinalAccrualOf(blks) ==
  /\ pc = "loop"
  /\ log = aggregatedTransfers
  /\ \E head \in {b \in blks : b >= LastBlock(log)} :
       /\ currentBlock' = head
       /\ endBlock' = EffectiveEnd(head, endBlock)
       /\ scores' = FinalAccrue(scores, EffectiveEnd(head, endBlock))
  /\ pc' = "allocate"
  /\ UNCHANGED <<startBlock, simulatedRun, log, totalScore,
                 totalAvailableMorpho, rights, error, tree, console, file, feed>>

Init == InitOf(Blocks, Blocks \cup {Infinity})

ProcessEvent == ProcessEventOf(Address, Amounts, Blocks)

FinalAccrual == FinalAccrualOf(Blocks)

Next == ProcessEvent \/ FinalAccrual

Spec == Init /\ [][Next]_vars

\* ------------------------------------------------------ the event feed

\* The logs of the YTs the feed is run on: receipts by A or B of 1 or 2 at
\* any block.
FeedLogs ==
  {RawLog([from |-> AddressZero, to |-> to, amount |-> a, block |-> b]) :
     to \in Holders, a \in Amounts, b \in Blocks}

\* What queryFilter returns for one YT: up to two logs in block order.
FeedLists ==
  {<<>>} \cup {<<t>> : t \in FeedLogs}
    \cup {<<t[1], t[2]>> :
            t \in {u \in FeedLogs \X FeedLogs : u[1].blockNumber <= u[2].blockNumber}}

\* The state of main at line 48 when Promise.all has returned the lists of
\* up to two YTs.
InitFeed ==
  /\ startBlock = 0
  /\ endBlock = Infinity
  /\ simulatedRun = TRUE
  /\ transfers \in {<<>>} \cup {<<l>> : l \in FeedLists}
                     \cup {<<l[1], l[2]>> : l \in FeedLists \X FeedLists}
  /\ aggregatedTransfers = <<>>
  /\ log = <<>>
  /\ scores = EmptyScores
  /\ totalScore = 0
  /\ totalAvailableMorpho = Pool(0, 0)
  /\ rights = EmptyScores
  /\ pc = "fetch"
  /\ error = "none"
  /\ currentBlock = 0
  /\ tree = NoTree
  /\ console = <<>>
  /\ file = "none"

\* Lines 48-55.
Aggregate ==
  /\ pc = "fetch"
  /\ aggregatedTransfers' = Aggregated(transfers)
  /\ pc' = "loop"
  /\ UNCHANGED <<startBlock, endBlock, simulatedRun, log, scores, totalScore,
                 totalAvailableMorpho, rights, error, currentBlock, tree,
                 console, file, transfers>>

\* One iteration of the for loop of lines 62-100 on the next event of
\* aggregatedTransfers.
ProcessNext ==
  /\ pc = "loop"
  /\ Len(log) < Len(aggregatedTransfers)
  /\ LET ev == aggregatedTransfers[Len(log) + 1]
     IN /\ scores' = ProcessTransfer(scores, ev, startBlock)
        /\ log' = Append(log, ev)
  /\ UNCHANGED <<startBlock, endBlock, simulatedRun, totalScore,
                 totalAvailableMorpho, rights, pc, error, currentBlock, tree,
                 console, file, feed>>

NextFeed == Aggregate \/ ProcessNext \/ FinalAccrual

SpecFeed == InitFeed /\ [][NextFeed]_vars

\* ---------------------------------------------- the worked window examples

\* The values of the worked examples of the header comment (lines 59-60):
\* receipts of 50 at blocks 100 and 200, windows starting at 0, 150 or 200
\* and ending at 300 or unbounded.
WorkedAddress == {AddressZero, "A"}

WorkedAmounts == {50, 100}

WorkedBlocks == {100, 150, 200, 300}

WorkedStarts == {0, 150, 200}

WorkedEnds == {300, Infinity}

InitWorked == InitOf(WorkedStarts, WorkedEnds)

ProcessWorkedEvent == ProcessEventOf(WorkedAddress, WorkedAmounts, WorkedBlocks)

FinalAccrualWorked == FinalAccrualOf(WorkedBlocks)

NextWorked == ProcessWorkedEvent \/ FinalAccrualWorked

SpecWorked == InitWorked /\ [][NextWorked]_vars

\* ------------------------------------------------------------ the allocator

\* Largest balance of the adapter that balanceOf returns (line 114).
MaxPool == 3

\* Line 113: new Decimal(1337).times("1e18").
SimulatedPool == Pool(1337, 18)

\* Lines 116-121 with the amounts taken as shares of the scores of the
\* holders that pass the minimum-share test only, so that the share of the
\* others goes to them.
RightsReallocated(sc, total, pool) ==
  LET included == {u \in DOMAIN sc : GtMinPot(DecDiv(sc[u].score, total))}
      rest == SumOver([h \in included |-> sc[h].score], included)
  IN [h \in included |->
        ToString(ToDecimalPlaces0(DecTimes(DecDiv(sc[h].score, rest), pool)))]

\* Lines 116-121: the amount string of every holder whose share passes the
\* minimum-share test.
Rights(sc, total, pool) ==
  [h \in {u \in DOMAIN sc : GtMinPot(DecDiv(sc[u].score, total))} |->
     ToString(ToDecimalPlaces0(DecTimes(DecDiv(sc[h].score, total), pool)))]

\* Lines 110-121: the total score, the pool and the rights.
ComputeRights ==
  /\ pc = "allocate"
  /\ totalScore' = TotalScore(scores)
  /\ \E pool \in IF simulatedRun THEN {SimulatedPool}
                 ELSE {Pool(m, 0) : m \in 0..MaxPool} :
       /\ totalAvailableMorpho' = pool
       /\ rights' = Rights(scores, TotalScore(scores), pool)
  /\ pc' = "merkle"
  /\ UNCHANGED <<startBlock, endBlock, simulatedRun, log, scores, error,
                 currentBlock, tree, console, file, feed>>

\* ------------------------------------------------------ the Merkle committer

\* computeMerkleTree is imported from ./merkleTree.js (line 15); what it does
\* is taken from the specification's section 4.4. A hash is a sequence of
\* naturals built so that different inputs give different hashes (an ideal
\* hash function), ordered lexicographically.

\* An address as one symbol of a hash input.
AddressCode(a) ==
  CASE a = "A" -> 1 [] a = "B" -> 2 [] a = "C" -> 3 [] OTHER -> 0

\* The fixed encoding of an amount string.
EncodeAmount(r) ==
  (IF r.neg THEN <<13>> ELSE <<>>)
    \o (CASE r.form = "plain" -> r.digits
          [] r.form = "exponential" -> r.digits \o <<14>> \o Digits(r.exp)
          [] r.form = "Infinity" -> <<15>>
          [] OTHER -> <<16>>)

\* The leaf hash: the hash of the pair (address, amount).
LeafHash(address, amount) ==
  <<20, AddressCode(address), 21>> \o EncodeAmount(amount) \o <<22>>

\* x <= y for two hashes.
RECURSIVE HashLeq(_, _)
HashLeq(x, y) ==
  IF x = <<>> THEN TRUE
  ELSE IF y = <<>> THEN FALSE
  ELSE IF x[1] # y[1] THEN x[1] < y[1]
  ELSE HashLeq(Tail(x), Tail(y))

\* An internal node: the hash of its two children put in sorted order.
HashPair(a, b) ==
  IF HashLeq(a, b) THEN <<30>> \o a \o <<31>> \o b \o <<32>>
  ELSE <<30>> \o b \o <<31>> \o a \o <<32>>

\* The level above a level of the tree: neighbours are paired, a node
\* without neighbour moves up as it is.
NextLevel(level) ==
  [i \in 1..((Len(level) + 1) \div 2) |->
     IF 2 * i <= Len(level) THEN HashPair(level[2 * i - 1], level[2 * i])
     ELSE level[2 * i - 1]]

\* The root above a non-empty level.
RECURSIVE RootOf(_)
RootOf(level) ==
  IF Len(level) = 1 THEN level[1] ELSE RootOf(NextLevel(level))

\* The root of the tree without leaves.
EmptyRoot == <<0>>

\* The sibling hashes met on the way from node i of a level to the root.
RECURSIVE ProofOf(_, _)
ProofOf(level, i) ==
  IF Len(level) <= 1 THEN <<>>
  ELSE LET sibling == IF i % 2 = 1 THEN i + 1 ELSE i - 1
       IN (IF sibling <= Len(level) THEN <<level[sibling]>> ELSE <<>>)
            \o ProofOf(NextLevel(level), (i + 1) \div 2)

\* The root over the leaves in the order given, and for every address its
\* amount and its proof.
computeMerkleTree(leaves) ==
  LET hashes == [i \in 1..Len(leaves) |->
                   LeafHash(leaves[i].address, leaves[i].accumulatedRewards)]
  IN [root |-> IF leaves = <<>> THEN EmptyRoot ELSE RootOf(hashes),
      proofs |->
        [a \in {leaves[i].address : i \in 1..Len(leaves)} |->
           LET i == CHOOSE j \in 1..Len(leaves) : leaves[j].address = a
           IN [amount |-> leaves[i].accumulatedRewards,
               proof |-> ProofOf(hashes, i)]]]

\* The keys of scores in the order a for-in loop or Object.entries visits
\* them: the order in which line 84 has created them, that is the order of
\* the first receipt of every address other than the sentinel.
RECURSIVE HolderOrder(_)
HolderOrder(l) ==
  IF l = <<>> THEN <<>>
  ELSE LET before == HolderOrder(SubSeq(l, 1, Len(l) - 1))
           to == l[Len(l)].to
       IN IF to = AddressZero \/ \E i \in 1..Len(before) : before[i] = to
          THEN before
          ELSE Append(before, to)

\* Line 124 with its last entry left out.
LeavesWithoutLast(r, order) ==
  LET Included(h) == h \in DOMAIN r
      all == SelectSeq(order, Included)
      keys == SubSeq(all, 1, Len(all) - 1)
  IN [i \in 1..Len(keys) |->
        [address |-> keys[i], accumulatedRewards |-> r[keys[i]]]]

\* Line 124: Object.entries(rights) as {address, accumulatedRewards}
\* objects; rights has its keys in the order of scores (line 116).
Leaves(r, order) ==
  LET Included(h) == h \in DOMAIN r
      keys == SelectSeq(order, Included)
  IN [i \in 1..Len(keys) |->
        [address |-> keys[i], accumulatedRewards |-> r[keys[i]]]]

\* Lines 123-125.
ComputeMerkle ==
  /\ pc = "merkle"
  /\ tree' = computeMerkleTree(Leaves(rights, HolderOrder(log)))
  /\ pc' = "output"
  /\ UNCHANGED <<startBlock, endBlock, simulatedRun, log, scores, totalScore,
                 totalAvailableMorpho, rights, error, currentBlock, console,
                 file, feed>>

\* Lines 127-133: the root is printed; then a simulated run evaluates the
\* name proof, which is declared nowhere (line 123 declares proofs), so
\* console.log is not reached and main ends in a ReferenceError; any other
\* run writes root and proofs to PROOFS_FILENAME.
Output ==
  /\ pc = "output"
  /\ console' = Append(console, [label |-> "Computed root: ", value |-> tree.root])
  /\ IF simulatedRun
     THEN error' = "ReferenceError" /\ file' = file
     ELSE error' = error /\ file' = tree
  /\ pc' = "done"
  /\ UNCHANGED <<startBlock, endBlock, simulatedRun, log, scores, totalScore,
                 totalAvailableMorpho, rights, currentBlock, tree, feed>>

\* The amounts of the logs the allocator is run on: small ones, and ones
\* that put a share at, just above and just below 1/1000.
AllocAmounts == {1, 2, 3, 5, 998, 999, 1000}

Mint(to, amount, block) ==
  [from |-> AddressZero, to |-> to, amount |-> amount, block |-> block]

\* Logs of no event, of one receipt by A, and of one receipt by A and one by
\* B at any block.
AllocLogs ==
  {<<>>}
    \cup {<<Mint("A", a, 0)>> : a \in AllocAmounts}
    \cup {<<Mint("A", a[1], 0), Mint("B", a[2], b)>> :
            a \in AllocAmounts \X AllocAmounts, b \in Blocks}

\* The state main is in at line 110 after it has consumed one of AllocLogs
\* with startBlock = 0 and accrued up to an effective end block e, for either
\* value of the parameter simulatedRun.
InitAlloc ==
  /\ startBlock = 0
  /\ endBlock \in 1..MaxBlock
  /\ simulatedRun \in BOOLEAN
  /\ log \in AllocLogs
  /\ scores = FinalAccrue(RunLog(log, startBlock), endBlock)
  /\ totalScore = 0
  /\ totalAvailableMorpho = Pool(0, 0)
  /\ rights = EmptyScores
  /\ pc = "allocate"
  /\ error = "none"
  /\ currentBlock = IF LastBlock(log) > endBlock THEN LastBlock(log) ELSE endBlock
  /\ tree = NoTree
  /\ console = <<>>
  /\ file = "none"
  /\ transfers = <<>>
  /\ aggregatedTransfers = log

NextAlloc == ComputeRights \/ ComputeMerkle \/ Output

SpecAlloc == InitAlloc /\ [][NextAlloc]_vars

\* The holders and amounts of the logs the Merkle committer is run on.
MerkleHolders == {"A", "B", "C"}

MerkleAmounts == {1, 2}

\* Logs in which up to three different holders receive once each at block
\* 0, in every order.
MerkleLogs ==
  UNION {{[i \in 1..n |-> Mint(o[i], a[i], 0)] :
            o \in {f \in [1..n -> MerkleHolders] :
                     \A i, j \in 1..n : f[i] = f[j] => i = j},
            a \in [1..n -> MerkleAmounts]} :
         n \in 0..Cardinality(MerkleHolders)}

\* The state main is in at line 110 after it has consumed one of MerkleLogs
\* with startBlock = 0 and the chain head at block 1.
InitMerkle ==
  /\ startBlock = 0
  /\ endBlock = 1
  /\ simulatedRun \in BOOLEAN
  /\ log \in MerkleLogs
  /\ scores = FinalAccrue(RunLog(log, startBlock), endBlock)
  /\ totalScore = 0
  /\ totalAvailableMorpho = Pool(0, 0)
  /\ rights = EmptyScores
  /\ pc = "allocate"
  /\ error = "none"
  /\ currentBlock = endBlock
  /\ tree = NoTree
  /\ console = <<>>
  /\ file = "none"
  /\ transfers = <<>>
  /\ aggregatedTransfers = log

SpecMerkle == InitMerkle /\ [][NextAlloc]_vars

\* ------------------------------------------------- reference definitions

Max(a, b) == IF a >= b THEN a ELSE b

\* The last event of a non-empty log.
Last(l) == l[Len(l)]

\* The sum of the balances of all checkpoints.
SumBalances(sc) ==
  SumOver([h \in DOMAIN sc |-> sc[h].prevCheckpoint.amount], DOMAIN sc)

\* The total amount minted (from = sentinel) and burned (to = sentinel) by
\* the events of l.
Minted(l) ==
  SumOver([i \in 1..Len(l) |-> IF l[i].from = AddressZero THEN l[i].amount ELSE 0],
          1..Len(l))

Burned(l) ==
  SumOver([i \in 1..Len(l) |-> IF l[i].to = AddressZero THEN l[i].amount ELSE 0],
          1..Len(l))

\* The ledger balance of h after every event of l whose block is at most b:
\* receipts minus spends.
LedgerBalance(l, h, b) ==
  SumOver([i \in 1..Len(l) |->
             IF l[i].block <= b
             THEN (IF l[i].to = h THEN l[i].amount ELSE 0)
                  - (IF l[i].from = h THEN l[i].amount ELSE 0)
             ELSE 0],
          1..Len(l))

\* A log in which every spend is covered: the `from` of each event holds at
\* least the event's amount before the event (so nobody spends before a
\* receipt, and no balance is overdrawn).
ConsistentLog(l) ==
  \A i \in 1..Len(l) :
    l[i].from # AddressZero =>
      LedgerBalance(SubSeq(l, 1, i - 1), l[i].from, l[i].block) >= l[i].amount

\* The balance h holds during the blocks s, ..., e - 1, summed: the score of
\* h for the window [s, e].
WindowIntegral(l, h, s, e) ==
  SumOver([b \in s..(e - 1) |-> LedgerBalance(l, h, b)], s..(e - 1))

\* ------------------------------------------------------------------ claims

\* C1: when the accumulator processes an event whose `from` is not the
\* sentinel and has no checkpoint yet, it signals a ConsistencyError.
C1_SpendBeforeReceiptSignals ==
  [][(/\ pc = "loop"
      /\ Len(log') = Len(log) + 1
      /\ Last(log').from # AddressZero
      /\ Last(log').from # Last(log').to
      /\ Last(log').from \notin DOMAIN scores)
     => error' = "ConsistencyError"]_vars

\* C2: after every processed event no holder checkpoint has a negative
\* balance; stated for the logs whose earlier events were all covered, so
\* that the last event is the only one that can overdraw.
C2_NoNegativeBalance ==
  (log # <<>> /\ ConsistentLog(SubSeq(log, 1, Len(log) - 1))) =>
    \A h \in DOMAIN scores : scores[h].prevCheckpoint.amount >= 0

\* C3: after each processed event the balances of all checkpoints sum to the
\* amount minted so far minus the amount burned so far.
C3_Conservation == SumBalances(scores) = Minted(log) - Burned(log)

\* C4: no step of processing, per-event accrual or final accrual, decreases
\* the accruedScore of any holder.
C4_MonotonicScore ==
  [][\A h \in DOMAIN scores : scores'[h].score >= scores[h].score]_vars

\* C5: for a consistent log, the final score of every holder is the balance
\* held during the blocks of [startBlock, effectiveEndBlock] only: holdings
\* before startBlock and holdings or events after effectiveEndBlock add
\* nothing.
C5_OnlyWindowCounts ==
  (pc = "allocate" /\ ConsistentLog(log)) =>
    \A h \in DOMAIN scores :
      scores[h].score = WindowIntegral(log, h, startBlock, endBlock)

\* C6: the final accrual clamps to the window like a transfer does: a holder
\* whose lastBlock is before startBlock gains balance * (effectiveEndBlock -
\* startBlock) if effectiveEndBlock > startBlock, and 0 otherwise.
C6_FinalAccrualClamped ==
  [][(pc = "loop" /\ pc' = "allocate") =>
       \A h \in DOMAIN scores :
         scores[h].prevCheckpoint.block < startBlock =>
           scores'[h].score - scores[h].score =
             IF endBlock' > startBlock
             THEN scores[h].prevCheckpoint.amount * (endBlock' - startBlock)
             ELSE 0]_vars

\* A log of exactly two receipts by the single holder A, the second at a
\* later block than the first and not before startBlock.
TwoReceipts ==
  /\ Len(log) = 2
  /\ \A i \in 1..2 : log[i].from = AddressZero /\ log[i].to = "A"
  /\ log[2].block > log[1].block
  /\ startBlock <= log[2].block

\* C7: a single holder who receives a1 at b1 and a2 at b2 > b1, with
\* startBlock s <= b2, has score a1 * (b2 - max(b1, s)) after the second
\* event and that plus (a1 + a2) * (e - b2) after the final accrual to
\* e >= b2; receipts of 50 at 100 and 50 at 200 with e = 300 give 5000 then
\* 15000 for s = 0, and 2500 then 12500 for s = 150.
C7_WorkedWindow ==
  TwoReceipts =>
    LET a1 == log[1].amount
        b1 == log[1].block
        a2 == log[2].amount
        b2 == log[2].block
        afterSecond == a1 * (b2 - Max(b1, startBlock))
        example == a1 = 50 /\ b1 = 100 /\ a2 = 50 /\ b2 = 200
    IN /\ pc = "loop" =>
            /\ scores["A"].score = afterSecond
            /\ (example /\ startBlock = 0) => scores["A"].score = 5000
            /\ (example /\ startBlock = 150) => scores["A"].score = 2500
       /\ (pc = "allocate" /\ endBlock >= b2) =>
            /\ scores["A"].score = afterSecond + (a1 + a2) * (endBlock - b2)
            /\ (example /\ startBlock = 0 /\ endBlock = 300) =>
                 scores["A"].score = 15000
            /\ (example /\ startBlock = 150 /\ endBlock = 300) =>
                 scores["A"].score = 12500

\* C7's case: the clamped example after its final accrual to block 300.
C7_Witness ==
  /\ TwoReceipts
  /\ pc = "allocate"
  /\ log[1] = [from |-> AddressZero, to |-> "A", amount |-> 50, block |-> 100]
  /\ log[2] = [from |-> AddressZero, to |-> "A", amount |-> 50, block |-> 200]
  /\ startBlock = 150
  /\ endBlock = 300
  /\ scores["A"].score = 12500

\* x + y + c for two digit sequences, digit by digit.
RECURSIVE AddDigits(_, _, _)
AddDigits(x, y, c) ==
  IF x = <<>> /\ y = <<>> THEN Digits(c)
  ELSE LET dx == IF x = <<>> THEN 0 ELSE x[Len(x)]
           dy == IF y = <<>> THEN 0 ELSE y[Len(y)]
           fx == IF x = <<>> THEN x ELSE SubSeq(x, 1, Len(x) - 1)
           fy == IF y = <<>> THEN y ELSE SubSeq(y, 1, Len(y) - 1)
       IN Append(AddDigits(fx, fy, (dx + dy + c) \div 10), (dx + dy + c) % 10)

\* x <= y for two digit sequences without leading zeros.
LeqDigits(x, y) ==
  \/ Len(x) < Len(y)
  \/ Len(x) = Len(y) /\ ~DigitsGreater(x, y)

\* The integer an amount string of rights denotes, as digits.
AmountDigits(r) ==
  IF r.form = "plain" THEN r.digits
  ELSE r.digits \o Zeros(r.exp + 1 - Len(r.digits))

\* The sum of the amounts of the leaves of r over the holders S, as digits.
RECURSIVE SumAmounts(_, _)
SumAmounts(r, S) ==
  IF S = {} THEN <<>>
  ELSE LET h == CHOOSE u \in S : TRUE
       IN AddDigits(AmountDigits(r[h]), SumAmounts(r, S \ {h}), 0)

\* The pool size as digits.
PoolDigits(pool) == IF pool.m = 0 THEN <<>> ELSE Digits(pool.m) \o Zeros(pool.e)

\* s / t > 1/1000 for integers s and t # 0, exactly.
ShareAbove(s, t) == IF t > 0 THEN 1000 * s > t ELSE 1000 * s < t

\* C8: for every score mapping with totalScore > 0 (and no negative score)
\* and every pool size P, the amounts of all emitted leaves sum to at most P.
C8_SumWithinPool ==
  (/\ pc = "merkle"
   /\ totalScore > 0
   /\ \A h \in DOMAIN scores : scores[h].score >= 0)
  => LeqDigits(SumAmounts(rights, DOMAIN rights), PoolDigits(totalAvailableMorpho))

\* C9: a holder appears in the distribution if and only if accruedScore /
\* totalScore is strictly greater than 0.001; a share of exactly 0.001 is
\* excluded.
C9_StrictMinimumShare ==
  (pc = "merkle" /\ totalScore # 0) =>
    \A h \in DOMAIN scores :
      h \in DOMAIN rights <=> ShareAbove(scores[h].score, totalScore)

\* C9's case: a holder whose share is exactly 0.001 has no leaf, next to a
\* holder who has one.
C9_Witness ==
  /\ pc = "merkle"
  /\ totalScore > 0
  /\ DOMAIN rights # {}
  /\ \E h \in DOMAIN scores :
       1000 * scores[h].score = totalScore /\ h \notin DOMAIN rights

\* C10: if the scores sum to 0, no holders at all included, the distribution
\* is empty and no error is raised.
C10_ZeroTotalEmpty ==
  (pc = "merkle" /\ totalScore = 0) => (DOMAIN rights = {} /\ error = "none")

\* C11: a configuration with startBlock > endBlock is rejected with a
\* ConfigurationError before any transfer event is processed: under such a
\* configuration no event is consumed and no checkpoint is created.
C11_InvalidWindowRejected ==
  (pc = "loop" /\ startBlock > endBlock) =>
    /\ log = <<>>
    /\ DOMAIN scores = {}

\* C12: in simulated mode the run terminates normally after reporting the
\* root and the proofs to the console and persists no artifact; it does not
\* end in an error after the root has been computed.
C12_DryRunEndsNormally ==
  (pc = "done" /\ simulatedRun) =>
    /\ error = "none"
    /\ file = "none"

\* The hash reached from a leaf hash by hashing it, proof element after proof
\* element, with the sorted-pair hash.
RECURSIVE FoldProof(_, _)
FoldProof(h, proof) ==
  IF proof = <<>> THEN h
  ELSE FoldProof(HashPair(h, proof[1]), Tail(proof))

Permutations(n) ==
  {p \in [1..n -> 1..n] : \A i, j \in 1..n : p[i] = p[j] => i = j}

C15_SentinelNeverHolder ==
  /\ AddressZero \notin DOMAIN scores
  /\ AddressZero \notin DOMAIN rights
  /\ pc = "allocate" =>
       AddressZero \notin DOMAIN Rights(scores, TotalScore(scores), SimulatedPool)

\* C15's case: the sentinel has been the sender of a mint and the receiver
\* of a burn, and only the holder has a checkpoint.
C15_Witness ==
  /\ pc = "allocate"
  /\ Len(log) = 2
  /\ log[1].from = AddressZero /\ log[1].to = "A"
  /\ log[2].from = "A" /\ log[2].to = AddressZero
  /\ DOMAIN scores = {"A"}

\* C16: in every run with totalScore # 0 every holder's share
\* accruedScore / totalScore lies in [0, 1], and so every emitted leaf
\* amount is a non-negative integer that does not exceed the pool.
C16_ShareWithinUnit ==
  (pc = "merkle" /\ totalScore # 0) =>
    /\ \A h \in DOMAIN scores :
         IF totalScore > 0
         THEN 0 <= scores[h].score /\ scores[h].score <= totalScore
         ELSE totalScore <= scores[h].score /\ scores[h].score <= 0
    /\ \A h \in DOMAIN rights :
         /\ ~rights[h].neg
         /\ rights[h].form \in {"plain", "exponential"}
         /\ LeqDigits(AmountDigits(rights[h]), PoolDigits(totalAvailableMorpho))

\* The increment the window clamp gives a checkpoint (balance, lastBlock)
\* for the interval that ends at block.
ClampIncrement(balance, lastBlock, block, start) ==
  IF lastBlock >= start THEN balance * (block - lastBlock)
  ELSE IF block > start THEN balance * (block - start)
  ELSE 0

\* C17: when an event at block `block` touches a holder with an existing
\* checkpoint (balance, lastBlock), on the `to` side or on the `from` side,
\* the score grows by balance * (block - lastBlock) if lastBlock >=
\* startBlock, by balance * (block - startBlock) if lastBlock < startBlock <
\* block, and by 0 if lastBlock < startBlock and block <= startBlock; the
\* checkpoint's lastBlock is then block.
C17_WindowClampIncrement ==
  [][(pc = "loop" /\ pc' = "loop" /\ Len(log') = Len(log) + 1) =>
       LET ev == log'[Len(log')]
       IN \A h \in {ev.to, ev.from} \cap DOMAIN scores :
            /\ scores'[h].score - scores[h].score =
                 ClampIncrement(scores[h].prevCheckpoint.amount,
                                scores[h].prevCheckpoint.block, ev.block, startBlock)
            /\ scores'[h].prevCheckpoint.block = ev.block]_vars

\* C17's case: a holder whose checkpoint lies before startBlock is debited
\* after startBlock and has accrued its balance from startBlock only, while
\* the receiver is credited for the first time.
C17_Witness ==
  /\ pc = "loop"
  /\ Len(log) = 2
  /\ log[1].to = "A" /\ log[1].block < startBlock
  /\ log[2].from = "A" /\ log[2].to = "B" /\ log[2].block > startBlock
  /\ scores["A"].score = log[1].amount * (log[2].block - startBlock)
  /\ scores["A"].score > 0
  /\ scores["A"].prevCheckpoint.block = log[2].block

\* C18: the effective end block is min(configured endBlock, latest known
\* block), the latest known block when endBlock is unbounded, and after the
\* final accrual the checkpoint of every holder, those with balance zero
\* included, has lastBlock equal to it.
C18_FinalAccrualEndPoint ==
  [][(pc = "loop" /\ pc' = "allocate") =>
       /\ endBlock' = IF endBlock = Infinity \/ currentBlock' < endBlock
                      THEN currentBlock' ELSE endBlock
       /\ DOMAIN scores' = DOMAIN scores
       /\ \A h \in DOMAIN scores' :
            scores'[h].prevCheckpoint.block = endBlock']_vars

\* C18's case: the configured end block lies before the chain head and
\* after the last event, and a holder whose balance is zero has its
\* checkpoint at the end block.
C18_Witness ==
  /\ pc = "allocate"
  /\ endBlock < currentBlock
  /\ LastBlock(log) < endBlock
  /\ \E h \in DOMAIN scores :
       /\ scores[h].prevCheckpoint.amount = 0
       /\ scores[h].prevCheckpoint.block = endBlock

\* floor(s * P / t) as digits, for s >= 0, t > 0 and the pool P = m * 10^e.
FloorShare(s, t, pool) ==
  LET n == s * pool.m
      ds == Digits(n \div t) \o FracDigits(n % t, t, pool.e)
  IN SubSeq(ds, LeadingZeros(ds) + 1, Len(ds))

\* C19: for every included holder the emitted amount is
\* floor(accruedScore * P / totalScore): a fractional part of one half or
\* more is not rounded upward.
C19_AmountIsFloor ==
  (/\ pc = "merkle"
   /\ totalScore > 0
   /\ \A h \in DOMAIN scores : scores[h].score >= 0)
  => \A h \in DOMAIN rights :
       AmountDigits(rights[h]) =
         FloorShare(scores[h].score, totalScore, totalAvailableMorpho)

\* The amount string for the score s out of the total t and the pool.
LeafAmount(s, t, pool) ==
  ToString(ToDecimalPlaces0(DecTimes(DecDiv(s, t), pool)))

\* C20: dust is forfeited, not reallocated: the amount of an included holder
\* is a function of its own score, of the total of the scores of all
\* holders, those filtered out included, and of the pool; holders at or
\* below the threshold get no leaf.
C20_DustForfeited ==
  (pc = "merkle") =>
    /\ totalScore = SumOver([h \in DOMAIN scores |-> scores[h].score], DOMAIN scores)
    /\ DOMAIN rights \subseteq DOMAIN scores
    /\ \A h \in DOMAIN rights :
         rights[h] = LeafAmount(scores[h].score, totalScore, totalAvailableMorpho)
    /\ \A h \in DOMAIN scores :
         (totalScore > 0 /\ 1000 * scores[h].score <= totalScore)
           => h \notin DOMAIN rights

\* C20's case: one holder is filtered out with a positive score, and the
\* amount of the other is its share of the total of both, which is not its
\* share of what the included holders have.
C20_Witness ==
  /\ pc = "merkle"
  /\ totalScore > 0
  /\ \E h \in DOMAIN rights : \E g \in DOMAIN scores \ DOMAIN rights :
       /\ scores[g].score > 0
       /\ rights[h] = LeafAmount(scores[h].score, totalScore, totalAvailableMorpho)
       /\ rights[h] # LeafAmount(scores[h].score, totalScore - scores[g].score,
                                 totalAvailableMorpho)

\* The events of l that lie in block b, in the order of l.
InBlock(l, b) ==
  LET Here(ev) == ev.block = b
  IN SelectSeq(l, Here)

\* The events of the lists t in the order they were supplied.
Supplied(t) ==
  LET all == Flat(t)
  IN [i \in 1..Len(all) |-> ToTransfer(all[i])]

\* C21: whatever order the per-instrument lists arrive in, the accumulator
\* processes the events in non-decreasing block order, and the events of one
\* block in the order supplied: ties are not reordered by amount or address.
C21_StableBlockOrder ==
  (pc # "fetch") =>
    /\ \A i, j \in 1..Len(log) : i < j => log[i].block <= log[j].block
    /\ log = SubSeq(aggregatedTransfers, 1, Len(log))
    /\ Len(aggregatedTransfers) = Len(Supplied(transfers))
    /\ \A b \in Blocks :
         InBlock(aggregatedTransfers, b) = InBlock(Supplied(transfers), b)

\* C21's case: the second YT's list starts before the first one's single
\* event; the two events of block 1 have been processed in the order
\* supplied, the receipt of 2 by B before the receipt of 1 by A.
C21_Witness ==
  /\ pc = "loop"
  /\ Len(transfers) = 2
  /\ Len(log) = 3
  /\ log[1] = [from |-> AddressZero, to |-> "A", amount |-> 1, block |-> 0]
  /\ log[2] = [from |-> AddressZero, to |-> "B", amount |-> 2, block |-> 1]
  /\ log[3] = [from |-> AddressZero, to |-> "A", amount |-> 1, block |-> 1]
  /\ Supplied(transfers)[1] = log[2]

\* The log l with its events in the order p.
Permuted(l, p) == [i \in 1..Len(l) |-> l[p[i]]]

\* The balances and the scores of two score mappings are the same.
SameBalancesAndScores(x, y) ==
  /\ DOMAIN x = DOMAIN y
  /\ \A h \in DOMAIN x :
       /\ x[h].score = y[h].score
       /\ x[h].prevCheckpoint.amount = y[h].prevCheckpoint.amount

\* C22: for any two event sequences that differ only by a permutation of
\* events sharing the same block, the balances and the scores of all holders
\* are identical: the log consumed, a log in which every spend is covered,
\* gives the same result in every order that moves events within their block
\* only.
C22_SameBlockOrderIndependent ==
  (pc = "loop" /\ ConsistentLog(log)) =>
    \A p \in Permutations(Len(log)) :
      (\A i \in 1..Len(log) : log[p[i]].block = log[i].block)
        => SameBalancesAndScores(RunLog(Permuted(log, p), startBlock), scores)

\* The block of the first event of l that h receives (0 if there is none).
FirstReceiptBlock(l, h) ==
  LET receipts == {i \in 1..Len(l) : l[i].to = h}
  IN IF receipts = {} THEN 0
     ELSE l[CHOOSE i \in receipts : \A j \in receipts : i <= j].block

\* C23: for a consistent log in which every event's block lies in
\* [startBlock, effectiveEndBlock], the final score of each holder is the sum,
\* over the blocks b from its first receipt up to but excluding
\* effectiveEndBlock, of the balance it holds after all events of block b.
C23_ScoreIsTimeIntegral ==
  (/\ pc = "allocate"
   /\ \A i \in 1..Len(log) : startBlock <= log[i].block /\ log[i].block <= endBlock
   /\ ConsistentLog(log))
  => \A h \in DOMAIN scores :
       scores[h].score =
         SumOver([b \in FirstReceiptBlock(log, h)..(endBlock - 1) |->
                    LedgerBalance(log, h, b)],
                 FirstReceiptBlock(log, h)..(endBlock - 1))

\* C23's case: A receives, passes a part on to B one block later, and the
\* accrual ends after that: A has accrued its first balance for one interval
\* and its second for the next, B its balance for the last one.
C23_Witness ==
  /\ pc = "allocate"
  /\ ConsistentLog(log)
  /\ Len(log) = 2
  /\ log[1].from = AddressZero /\ log[1].to = "A" /\ log[1].block >= startBlock
  /\ log[2].from = "A" /\ log[2].to = "B" /\ log[2].block > log[1].block
  /\ log[2].amount < log[1].amount
  /\ endBlock > log[2].block
  /\ scores["A"].score =
       log[1].amount * (log[2].block - log[1].block)
         + (log[1].amount - log[2].amount) * (endBlock - log[2].block)
  /\ scores["B"].score = log[2].amount * (endBlock - log[2].block)

\* C24: an event with from = to for a holder other than the sentinel that
\* already has a checkpoint leaves the holder's balance as it is, accrues the
\* interval since lastBlock once, not twice, and sets lastBlock to the
\* event's block.
C24_SelfTransfer ==
  [][(pc = "loop" /\ pc' = "loop" /\ Len(log') = Len(log) + 1) =>
       LET ev == log'[Len(log')]
       IN (ev.from = ev.to /\ ev.from # AddressZero /\ ev.from \in DOMAIN scores) =>
            /\ scores'[ev.from].prevCheckpoint.amount =
                 scores[ev.from].prevCheckpoint.amount
            /\ scores'[ev.from].score =
                 scores[ev.from].score
                   + ClampIncrement(scores[ev.from].prevCheckpoint.amount,
                                    scores[ev.from].prevCheckpoint.block,
                                    ev.block, startBlock)
            /\ scores'[ev.from].prevCheckpoint.block = ev.block]_vars

\* C24's case: A has received inside the window and transfers to itself in
\* a later block: it has accrued its balance over the interval once and
\* holds what it held.
C24_Witness ==
  /\ pc = "loop"
  /\ Len(log) = 2
  /\ log[1].from = AddressZero /\ log[1].to = "A" /\ log[1].block >= startBlock
  /\ log[2].from = "A" /\ log[2].to = "A" /\ log[2].block > log[1].block
  /\ scores["A"].score = log[1].amount * (log[2].block - log[1].block)
  /\ scores["A"].prevCheckpoint = [amount |-> log[1].amount, block |-> log[2].block]

\* C25: processing one transfer event changes only the checkpoints of the
\* event's `from` and `to`: balance, lastBlock and score of every other
\* holder stay as they are; and no step removes a checkpoint, so a holder
\* whose balance returns to zero keeps its entry and its score.
C25_Frame ==
  [][/\ DOMAIN scores \subseteq DOMAIN scores'
     /\ (pc = "loop" /\ pc' = "loop" /\ Len(log') = Len(log) + 1) =>
          LET ev == log'[Len(log')]
          IN /\ \A h \in DOMAIN scores \ {ev.from, ev.to} : scores'[h] = scores[h]
             /\ \A h \in DOMAIN scores \cap {ev.from, ev.to} :
                  scores'[h].prevCheckpoint.amount = 0 =>
                    scores'[h].score =
                      scores[h].score
                        + ClampIncrement(scores[h].prevCheckpoint.amount,
                                         scores[h].prevCheckpoint.block,
                                         ev.block, startBlock)]_vars

\* C25's case: A has received, held for some blocks inside the window and
\* spent everything: its entry is still there with balance zero and the
\* score it has accrued.
C25_Witness ==
  /\ pc = "loop"
  /\ Len(log) = 2
  /\ log[1].to = "A" /\ log[1].block >= startBlock
  /\ log[2].from = "A" /\ log[2].to # "A" /\ log[2].amount = log[1].amount
  /\ log[2].block > log[1].block
  /\ "A" \in DOMAIN scores
  /\ scores["A"].prevCheckpoint.amount = 0
  /\ scores["A"].score = log[1].amount * (log[2].block - log[1].block)

====
